---------------------------- MODULE Spec2Model ----------------------------
(***************************************************************************)
(* Model of src/iot.cpp: an Arduino sketch that samples three analog       *)
(* sensors, decides with shouldIrrigate whether to irrigate, logs the      *)
(* readings and drives a water pump.                                       *)
(*                                                                         *)
(* The Arduino runtime calls setup() once and then loop() forever; the     *)
(* program counter pc follows the statements of loop().  float values are  *)
(* modelled as exact rationals [num, den] in lowest terms.                  *)
(***************************************************************************)
EXTENDS Integers, Sequences, FiniteSets, TLC

VARIABLES
  pc,        \* position of the sketch: "setup", then the statements of loop()
  baud,      \* Serial.begin rate (0: not opened)
  pinModes,  \* pin -> "UNSET" | "INPUT" | "OUTPUT"
  pump,      \* level driven on WATER_PUMP_PIN: "FLOATING" | "LOW" | "HIGH"
  serial,    \* the lines written to Serial so far
  frame,     \* the locals of loop() that are in scope, a record
  iter,      \* history: number of loop() calls started
  mark,      \* history: Len(serial) when the current loop() call started
  sampled,   \* history: the analogRead results of the current loop() call
  steps,     \* history: the operations performed by the current loop() call
  hist,      \* history: one record per completed loop() call
  setups,    \* history: number of times setup() ran
  archive,   \* history: hist of an earlier execution (before a reset)
  args,      \* unit harness: the arguments of the function under test
  result,    \* unit harness: its result (<<>> before the call)
  calls      \* unit harness: the arguments of the controlIrrigation calls made

vars == <<pc, baud, pinModes, pump, serial, frame, iter, mark, sampled, steps,
          hist, setups, archive, args, result, calls>>

progVars == <<pc, baud, pinModes, pump, serial, frame, iter, mark, sampled,
              steps, hist, setups>>

harnessVars == <<args, result, calls>>

-----------------------------------------------------------------------------
(* Bounds of the model *)

\* loop() calls explored per execution
MaxIter == 2

\* controlIrrigation calls explored by the unit harness
MaxCalls == 6

\* analogRead results explored on each pin
SoilCodes == {250, 500}
TempCodes == {143, 174}
GasCodes  == {100, 450}

-----------------------------------------------------------------------------
(* Constants of the sketch *)

SOIL_MOISTURE_PIN == "A0"
TEMPERATURE_PIN   == "A1"
GAS_SENSOR_PIN    == "A2"
WATER_PUMP_PIN    == "7"

MOISTURE_THRESHOLD == 300
GAS_THRESHOLD      == 400
TEMP_THRESHOLD     == 30
VOLTAGE_REF        == 5
ADC_RESOLUTION     == 1023
SAMPLING_INTERVAL  == 5000

Pins == {SOIL_MOISTURE_PIN, TEMPERATURE_PIN, GAS_SENSOR_PIN, WATER_PUMP_PIN}

-----------------------------------------------------------------------------
(* float arithmetic, as exact rationals in lowest terms with den > 0 *)

Abs(n) == IF n < 0 THEN -n ELSE n

GCD[a \in Nat, b \in Nat] == IF b = 0 THEN a ELSE GCD[b, a % b]

Rat[n \in Int, d \in Int \ {0}] ==
  LET g == GCD[Abs(n), Abs(d)]
      s == IF d < 0 THEN -1 ELSE 1
  IN  [num |-> (s * n) \div g, den |-> (s * d) \div g]

Rats == [num : Int, den : Nat \ {0}]

RatInt[n \in Int] == Rat[n, 1]

RatMul[a \in Rats, b \in Rats] == Rat[a.num * b.num, a.den * b.den]

RatDiv[a \in Rats, b \in Rats] == Rat[a.num * b.den, a.den * b.num]

RatSub[a \in Rats, b \in Rats] == Rat[a.num * b.den - b.num * a.den, a.den * b.den]

RatLT[a \in Rats, b \in Rats] == a.num * b.den < b.num * a.den

RatGT[a \in Rats, b \in Rats] == RatLT[b, a]

-----------------------------------------------------------------------------
(* Serial output *)

Text(t) == [text |-> t]

BannerLines ==
  << Text("Edge Computing Irrigation Monitoring System"),
     Text("-------------------------------------------") >>

\* Serial.print(float): two decimals, rounded half up on the magnitude
PrintFloat(x) ==
  LET h == (Abs(x.num) * 200 + x.den) \div (2 * x.den)
  IN  [neg |-> x.num < 0, int |-> h \div 100, frac |-> h % 100]

StatusToken(irrigationStatus) ==
  IF irrigationStatus THEN "REQUIRED" ELSE "NOT NEEDED"

\* the line "Soil Moisture: .. | Temperature: ..°C | Gas Reading: .. |
\* Irrigation Status: .."
DataLine(data) ==
  [soil   |-> data.soilMoisture,
   temp   |-> PrintFloat(data.temperature),
   gas    |-> data.gasReading,
   status |-> StatusToken(data.irrigationStatus)]

StatusLine(irrigate) ==
  IF irrigate THEN Text("IRRIGATION ACTIVATED")
              ELSE Text("No irrigation required")

-----------------------------------------------------------------------------
(* The functions of the sketch *)

\* faulty variant: the ADC code is scaled by 1024 steps instead of ADC_RESOLUTION
ConvertDiv1024(code) ==
  LET voltage      == RatMul[code, RatDiv[RatInt[VOLTAGE_REF], RatInt[ADC_RESOLUTION + 1]]]
      temperatureC == RatMul[RatSub[voltage, Rat[1, 2]], RatInt[100]]
  IN  temperatureC

\* the transform of readTemperature on an ADC code (a rational)
Convert(code) ==
  LET voltage      == RatMul[code, RatDiv[RatInt[VOLTAGE_REF], RatInt[ADC_RESOLUTION]]]
      temperatureC == RatMul[RatSub[voltage, Rat[1, 2]], RatInt[100]]
  IN  temperatureC

readTemperature(tempReading) == Convert(RatInt[tempReading])

readSoilMoisture(adc) == adc

readGasSensor(adc) == adc

\* faulty variant: either stress signal alone triggers irrigation
shouldIrrigateAnyStress(moisture, temp, gas) ==
  LET lowMoisture     == moisture < MOISTURE_THRESHOLD
      highTemperature == RatGT[temp, RatInt[TEMP_THRESHOLD]]
      highGasStress   == gas > GAS_THRESHOLD
  IN  lowMoisture \/ highTemperature \/ highGasStress

\* faulty variant: the comparisons include the thresholds
shouldIrrigateNonStrict(moisture, temp, gas) ==
  LET lowMoisture     == moisture <= MOISTURE_THRESHOLD
      highTemperature == ~RatLT[temp, RatInt[TEMP_THRESHOLD]]
      highGasStress   == gas >= GAS_THRESHOLD
  IN  lowMoisture \/ (highTemperature /\ highGasStress)

shouldIrrigate(moisture, temp, gas) ==
  LET lowMoisture     == moisture < MOISTURE_THRESHOLD
      highTemperature == RatGT[temp, RatInt[TEMP_THRESHOLD]]
      highGasStress   == gas > GAS_THRESHOLD
  IN  lowMoisture \/ (highTemperature /\ highGasStress)

\* faulty variant: the pump levels are exchanged
controlIrrigationSwapped(irrigate) ==
  /\ pump' = IF irrigate THEN "LOW" ELSE "HIGH"
  /\ serial' = Append(serial, StatusLine(irrigate))
  /\ steps' = steps \o <<"digitalWrite", "Serial.println(status)">>

\* faulty variant: edge-triggered, the pump is written and the line printed only when
\* the level changes
controlIrrigationOnChange(irrigate) ==
  LET level == IF irrigate THEN "HIGH" ELSE "LOW"
  IN  /\ pump' = level
      /\ serial' = IF pump = level THEN serial
                   ELSE Append(serial, StatusLine(irrigate))
      /\ steps' = IF pump = level THEN steps
                  ELSE steps \o <<"digitalWrite", "Serial.println(status)">>

\* faulty variant: latching, a running pump is not switched off
controlIrrigationLatch(irrigate) ==
  /\ pump' = IF irrigate \/ pump = "HIGH" THEN "HIGH" ELSE "LOW"
  /\ serial' = Append(serial, StatusLine(irrigate))
  /\ steps' = steps \o <<"digitalWrite", "Serial.println(status)">>

controlIrrigation(irrigate) ==
  /\ pump' = IF irrigate THEN "HIGH" ELSE "LOW"
  /\ serial' = Append(serial, StatusLine(irrigate))
  /\ steps' = steps \o <<"digitalWrite", "Serial.println(status)">>

logSensorData(data) ==
  /\ serial' = serial \o
                 <<Text(""), Text("--- Sensor Data Log ---"), DataLine(data)>>
  /\ steps' = Append(steps, "Serial.print(log)")

-----------------------------------------------------------------------------
(* setup() and the statements of loop() *)

NoFrame == <<>>

Boot ==
  /\ pc = "setup"
  /\ baud = 0
  /\ pinModes = [p \in Pins |-> "INPUT"]
  /\ pump = "FLOATING"
  /\ serial = <<>>
  /\ frame = NoFrame
  /\ iter = 0
  /\ mark = 0
  /\ sampled = <<>>
  /\ steps = <<>>
  /\ hist = <<>>
  /\ setups = 0

Idle ==
  /\ args = "none"
  /\ result = <<>>
  /\ calls = <<>>

Init == Boot /\ Idle /\ archive = <<>>

\* faulty variant: setup() does not write the pump output
SetupNoPumpWrite ==
  /\ pc = "setup"
  /\ baud' = 9600
  /\ pinModes' = [p \in Pins |-> IF p = WATER_PUMP_PIN THEN "OUTPUT" ELSE "INPUT"]
  /\ serial' = serial \o BannerLines
  /\ setups' = setups + 1
  /\ pc' = "readSoilMoisture"
  /\ UNCHANGED <<pump, frame, iter, mark, sampled, steps, hist, archive>>
  /\ UNCHANGED harnessVars

Setup ==
  /\ pc = "setup"
  /\ baud' = 9600
  /\ pinModes' = [p \in Pins |-> IF p = WATER_PUMP_PIN THEN "OUTPUT" ELSE "INPUT"]
  /\ pump' = "LOW"
  /\ serial' = serial \o BannerLines
  /\ setups' = setups + 1
  /\ pc' = "readSoilMoisture"
  /\ UNCHANGED <<frame, iter, mark, sampled, steps, hist, archive>>
  /\ UNCHANGED harnessVars

LoopReadSoilMoisture ==
  /\ pc = "readSoilMoisture"
  /\ iter < MaxIter
  /\ \E adc \in SoilCodes :
       /\ frame' = [soilMoisture |-> readSoilMoisture(adc)]
       /\ sampled' = <<adc>>
  /\ iter' = iter + 1
  /\ mark' = Len(serial)
  /\ steps' = <<"analogRead(A0)">>
  /\ pc' = "readTemperature"
  /\ UNCHANGED <<baud, pinModes, pump, serial, hist, setups, archive>>
  /\ UNCHANGED harnessVars

LoopReadTemperature ==
  /\ pc = "readTemperature"
  /\ \E adc \in TempCodes :
       /\ frame' = [soilMoisture |-> frame.soilMoisture,
                    temperature  |-> readTemperature(adc)]
       /\ sampled' = Append(sampled, adc)
  /\ steps' = Append(steps, "analogRead(A1)")
  /\ pc' = "readGasSensor"
  /\ UNCHANGED <<baud, pinModes, pump, serial, iter, mark, hist, setups, archive>>
  /\ UNCHANGED harnessVars

LoopReadGasSensor ==
  /\ pc = "readGasSensor"
  /\ \E adc \in GasCodes :
       /\ frame' = [soilMoisture |-> frame.soilMoisture,
                    temperature  |-> frame.temperature,
                    gasReading   |-> readGasSensor(adc)]
       /\ sampled' = Append(sampled, adc)
  /\ steps' = Append(steps, "analogRead(A2)")
  /\ pc' = "shouldIrrigate"
  /\ UNCHANGED <<baud, pinModes, pump, serial, iter, mark, hist, setups, archive>>
  /\ UNCHANGED harnessVars

LoopShouldIrrigate ==
  /\ pc = "shouldIrrigate"
  /\ frame' = [soilMoisture     |-> frame.soilMoisture,
               temperature      |-> frame.temperature,
               gasReading       |-> frame.gasReading,
               irrigationNeeded |-> shouldIrrigate(frame.soilMoisture,
                                                   frame.temperature,
                                                   frame.gasReading)]
  /\ steps' = Append(steps, "shouldIrrigate")
  /\ pc' = "SensorData"
  /\ UNCHANGED <<baud, pinModes, pump, serial, iter, mark, sampled, hist,
                 setups, archive>>
  /\ UNCHANGED harnessVars

\* faulty variant: the initializer lists gasReading and soilMoisture in exchanged places
LoopSensorDataSwapped ==
  /\ pc = "SensorData"
  /\ frame' = [soilMoisture     |-> frame.soilMoisture,
               temperature      |-> frame.temperature,
               gasReading       |-> frame.gasReading,
               irrigationNeeded |-> frame.irrigationNeeded,
               currentData      |-> [soilMoisture     |-> frame.gasReading,
                                     temperature      |-> frame.temperature,
                                     gasReading       |-> frame.soilMoisture,
                                     irrigationStatus |-> frame.irrigationNeeded]]
  /\ steps' = Append(steps, "SensorData")
  /\ pc' = "logSensorData"
  /\ UNCHANGED <<baud, pinModes, pump, serial, iter, mark, sampled, hist,
                 setups, archive>>
  /\ UNCHANGED harnessVars

LoopSensorData ==
  /\ pc = "SensorData"
  /\ frame' = [soilMoisture     |-> frame.soilMoisture,
               temperature      |-> frame.temperature,
               gasReading       |-> frame.gasReading,
               irrigationNeeded |-> frame.irrigationNeeded,
               currentData      |-> [soilMoisture     |-> frame.soilMoisture,
                                     temperature      |-> frame.temperature,
                                     gasReading       |-> frame.gasReading,
                                     irrigationStatus |-> frame.irrigationNeeded]]
  /\ steps' = Append(steps, "SensorData")
  /\ pc' = "logSensorData"
  /\ UNCHANGED <<baud, pinModes, pump, serial, iter, mark, sampled, hist,
                 setups, archive>>
  /\ UNCHANGED harnessVars

\* faulty variant: the log is written after a fresh read of the gas sensor
LoopLogSensorDataReread ==
  /\ pc = "logSensorData"
  /\ \E adc \in GasCodes :
       /\ serial' = serial \o
            << Text(""), Text("--- Sensor Data Log ---"),
               DataLine([frame.currentData EXCEPT !.gasReading = readGasSensor(adc)]) >>
       /\ sampled' = Append(sampled, adc)
  /\ steps' = steps \o <<"analogRead(A2)", "Serial.print(log)">>
  /\ pc' = "controlIrrigation"
  /\ UNCHANGED <<baud, pinModes, pump, frame, iter, mark, hist, setups, archive>>
  /\ UNCHANGED harnessVars

LoopLogSensorData ==
  /\ pc = "logSensorData"
  /\ logSensorData(frame.currentData)
  /\ pc' = "controlIrrigation"
  /\ UNCHANGED <<baud, pinModes, pump, frame, iter, mark, sampled, hist,
                 setups, archive>>
  /\ UNCHANGED harnessVars

LoopControlIrrigation ==
  /\ pc = "controlIrrigation"
  /\ controlIrrigation(frame.irrigationNeeded)
  /\ pc' = "delay"
  /\ UNCHANGED <<baud, pinModes, frame, iter, mark, sampled, hist, setups,
                 archive>>
  /\ UNCHANGED harnessVars

\* faulty variant: the wait never returns
LoopDelayBlocks ==
  /\ pc = "delay"
  /\ steps' = IF steps[Len(steps)] = "delay" THEN steps ELSE Append(steps, "delay")
  /\ UNCHANGED <<pc, baud, pinModes, pump, serial, frame, iter, mark, sampled,
                 hist, setups, archive>>
  /\ UNCHANGED harnessVars

LoopDelay ==
  /\ pc = "delay"
  /\ steps' = Append(steps, "delay")
  /\ hist' = Append(hist, [sampled |-> sampled,
                           steps   |-> steps',
                           out     |-> SubSeq(serial, mark + 1, Len(serial)),
                           pump    |-> pump])
  /\ frame' = NoFrame
  /\ pc' = "readSoilMoisture"
  /\ UNCHANGED <<baud, pinModes, pump, serial, iter, mark, sampled, setups,
                 archive>>
  /\ UNCHANGED harnessVars

Next ==
  \/ Setup
  \/ LoopReadSoilMoisture
  \/ LoopReadTemperature
  \/ LoopReadGasSensor
  \/ LoopShouldIrrigate
  \/ LoopSensorData
  \/ LoopLogSensorData
  \/ LoopControlIrrigation
  \/ LoopDelay

Spec == Init /\ [][Next]_vars

\* the runtime keeps running the sketch: no statement blocks forever
FairSpec == Spec /\ WF_vars(Next)

-----------------------------------------------------------------------------
(* A second execution: the board is reset after the first execution has    *)
(* run its MaxIter loop() calls, and the sketch starts again from setup(). *)
(* archive keeps what the first execution did.                             *)

SecondExecution ==
  /\ pc = "readSoilMoisture"
  /\ iter = MaxIter
  /\ archive = <<>>
  /\ archive' = hist
  /\ pc' = "setup"
  /\ baud' = 0
  /\ pinModes' = [p \in Pins |-> "INPUT"]
  /\ pump' = "FLOATING"
  /\ serial' = <<>>
  /\ frame' = NoFrame
  /\ iter' = 0
  /\ mark' = 0
  /\ sampled' = <<>>
  /\ steps' = <<>>
  /\ hist' = <<>>
  /\ setups' = 0
  /\ UNCHANGED harnessVars

PairNext == Next \/ SecondExecution

PairSpec == Init /\ [][PairNext]_vars

-----------------------------------------------------------------------------
(* Unit harnesses: a function of the sketch called on its own, on inputs   *)
(* drawn from bounded sets.  The sketch itself is parked (pc = "unit").    *)

Parked ==
  /\ pc = "unit"
  /\ baud = 9600
  /\ pinModes = [p \in Pins |-> IF p = WATER_PUMP_PIN THEN "OUTPUT" ELSE "INPUT"]
  /\ serial = <<>>
  /\ frame = NoFrame
  /\ iter = 0
  /\ mark = 0
  /\ sampled = <<>>
  /\ steps = <<>>
  /\ hist = <<>>
  /\ setups = 1
  /\ archive = <<>>

PolicyMoistures == {0, 250, 299, 300, 301, 500, 1023}

PolicyTemps ==
  { Rat[-100000, 1], Rat[20, 1], Rat[2999, 100], Rat[30, 1], Rat[3001, 100],
    Rat[35, 1], Rat[100000, 1] }

PolicyGases == {0, 100, 399, 400, 401, 450, 1023}

InitPolicy ==
  /\ Parked
  /\ pump = "LOW"
  /\ args \in [moisture : PolicyMoistures, temp : PolicyTemps, gas : PolicyGases]
  /\ result = <<>>
  /\ calls = <<>>

PolicyCall ==
  /\ pc = "unit"
  /\ result = <<>>
  /\ result' = <<shouldIrrigate(args.moisture, args.temp, args.gas)>>
  /\ UNCHANGED <<progVars, archive, args, calls>>

PolicySpec == InitPolicy /\ [][PolicyCall]_vars

ConvertCodes ==
  { RatInt[0], RatInt[1], Rat[1023, 10], RatInt[163], RatInt[164], RatInt[512],
    RatInt[1022], RatInt[1023] }

InitConvert ==
  /\ Parked
  /\ pump = "LOW"
  /\ args \in [x : ConvertCodes, y : ConvertCodes]
  /\ result = <<>>
  /\ calls = <<>>

ConvertCall ==
  /\ pc = "unit"
  /\ result = <<>>
  /\ result' = <<[fx |-> Convert(args.x), fy |-> Convert(args.y)]>>
  /\ UNCHANGED <<progVars, archive, args, calls>>

ConvertSpec == InitConvert /\ [][ConvertCall]_vars

InitCtl ==
  /\ Parked
  /\ pump \in {"FLOATING", "LOW", "HIGH"}
  /\ args = "none"
  /\ result = <<>>
  /\ calls = <<>>

CtlCall ==
  /\ pc = "unit"
  /\ Len(calls) < MaxCalls
  /\ \E b \in BOOLEAN :
       /\ controlIrrigation(b)
       /\ calls' = Append(calls, b)
  /\ UNCHANGED <<pc, baud, pinModes, frame, iter, mark, sampled, hist, setups,
                 archive, args, result>>

CtlSpec == InitCtl /\ [][CtlCall]_vars

-----------------------------------------------------------------------------
(* Vocabulary of the properties *)

Count(seq, x) == Cardinality({i \in DOMAIN seq : seq[i] = x})

IsText(line, t) == "text" \in DOMAIN line /\ line.text = t

IsData(line) == "status" \in DOMAIN line

CountText(seq, t) == Cardinality({i \in DOMAIN seq : IsText(seq[i], t)})

IsPrefix(s1, s2) == Len(s1) <= Len(s2) /\ s1 = SubSeq(s2, 1, Len(s1))

\* the current loop() call has written the pump output
WroteThisIter == Count(steps, "digitalWrite") > 0

\* the current loop() call has emitted its log block
LoggedThisIter == Count(steps, "Serial.print(log)") > 0

\* the temperature read from an ADC code is above 30 degrees:
\* (code * 5 / 1023 - 0.5) * 100 > 30  <=>  500 * code > 80 * 1023
HotCode(code) == 500 * code > 80 * 1023

\* the decision the claims prescribe for the samples <<moisture, code, gas>>
Wanted(s) == s[1] < 300 \/ (HotCode(s[2]) /\ s[3] > 400)

-----------------------------------------------------------------------------
(* C1: shouldIrrigate(moisture, temperature, gas) is true iff moisture <   *)
(* 300 or (temperature > 30 and gas > 400): always true below 300, and     *)
(* from 300 up true exactly where both temperature > 30 and gas > 400.     *)
C1_PolicyTruthTable ==
  Len(result) = 1 =>
    LET hot == args.temp.num > 30 * args.temp.den
    IN  /\ args.moisture < 300 => result[1] = TRUE
        /\ args.moisture >= 300 => (result[1] <=> (hot /\ args.gas > 400))
        /\ result[1] <=> (args.moisture < 300 \/ (hot /\ args.gas > 400))

C1_Witness ==
  /\ Len(result) = 1
  /\ args.moisture = 500
  /\ args.temp = Rat[35, 1]
  /\ args.gas = 450
  /\ result[1] = TRUE

(* C2: the three comparisons are strict: with moisture at 300, a           *)
(* temperature of exactly 30 or a gas reading of exactly 400 gives false,  *)
(* and moisture = 300 by itself never gives true.                          *)
C2_StrictThresholds ==
  (Len(result) = 1 /\ args.moisture = 300) =>
    /\ (args.temp = Rat[30, 1] /\ args.gas = 400) => result[1] = FALSE
    /\ (args.temp = Rat[30, 1] \/ args.gas = 400) => result[1] = FALSE
    /\ result[1] = TRUE => (args.temp.num > 30 * args.temp.den /\ args.gas > 400)

C2_Witness ==
  /\ Len(result) = 1
  /\ args.moisture = 300
  /\ args.temp = Rat[30, 1]
  /\ args.gas = 400
  /\ result[1] = FALSE

(* C3: the pump output written by a loop() call is HIGH iff shouldIrrigate *)
(* of the readings sampled in that call is true, LOW otherwise, and it     *)
(* keeps that value until the next call's write.                           *)
C3_PumpFollowsDecision ==
  /\ WroteThisIter => pump = (IF Wanted(sampled) THEN "HIGH" ELSE "LOW")
  /\ (~WroteThisIter /\ hist # <<>>) =>
       pump = (IF Wanted(hist[Len(hist)].sampled) THEN "HIGH" ELSE "LOW")
  /\ \A n \in DOMAIN hist :
       hist[n].pump = (IF Wanted(hist[n].sampled) THEN "HIGH" ELSE "LOW")

\* the second call has sampled (500, 35.04, 100) and not yet written: the
\* pump is still HIGH from the first call, which sampled (250, 19.89, 100)
C3_Witness ==
  /\ pc = "controlIrrigation"
  /\ Len(hist) = 1
  /\ hist[1].sampled = <<250, 143, 100>>
  /\ sampled = <<500, 174, 100>>
  /\ pump = "HIGH"

\* the log block prescribed for the samples <<moisture, code, gas>>
ExpectedLog(s) ==
  << Text(""),
     Text("--- Sensor Data Log ---"),
     [soil   |-> s[1],
      temp   |-> PrintFloat(Convert(RatInt[s[2]])),
      gas    |-> s[3],
      status |-> IF Wanted(s) THEN "REQUIRED" ELSE "NOT NEEDED"] >>

\* the status line prescribed for the samples
ExpectedStatus(s) ==
  IF Wanted(s) THEN Text("IRRIGATION ACTIVATED") ELSE Text("No irrigation required")

(* C4: the log block of a loop() call shows the three values sampled in    *)
(* that call, its token is REQUIRED iff shouldIrrigate of them is true,    *)
(* the boolean passed to controlIrrigation is that decision, and the       *)
(* status line agrees with the token.                                      *)
C4_SnapshotConsistent ==
  /\ LoggedThisIter =>
       /\ Len(sampled) = 3
       /\ Len(serial) >= mark + 3
       /\ SubSeq(serial, mark + 1, mark + 3) = ExpectedLog(sampled)
  /\ pc = "logSensorData" =>
       /\ Len(sampled) = 3
       /\ frame.currentData.soilMoisture = sampled[1]
       /\ frame.currentData.temperature = Convert(RatInt[sampled[2]])
       /\ frame.currentData.gasReading = sampled[3]
       /\ frame.currentData.irrigationStatus = Wanted(sampled)
  /\ pc = "controlIrrigation" => frame.irrigationNeeded = Wanted(sampled)
  /\ \A n \in DOMAIN hist :
       hist[n].out = ExpectedLog(hist[n].sampled) \o <<ExpectedStatus(hist[n].sampled)>>

C4_Witness ==
  /\ Len(hist) = 2
  /\ hist[1].sampled = <<500, 174, 450>>
  /\ hist[2].sampled = <<500, 143, 450>>
  /\ hist[1].out[3].status = "REQUIRED"
  /\ hist[2].out[3].status = "NOT NEEDED"
  /\ hist[2].out[3].temp = [neg |-> FALSE, int |-> 19, frac |-> 89]

(* C5: controlIrrigation(b) called again with the same b leaves the pump  *)
(* output as the first call left it, and every call emits its status line  *)
(* (IRRIGATION ACTIVATED for true, No irrigation required for false), also *)
(* when the pump output does not change.                                   *)
C5_ControlIdempotent ==
  [][ calls' # calls =>
        LET b == calls'[Len(calls')]
        IN  /\ pump' = (IF b THEN "HIGH" ELSE "LOW")
            /\ Len(serial') = Len(serial) + 1
            /\ IsText(serial'[Len(serial')],
                      IF b THEN "IRRIGATION ACTIVATED" ELSE "No irrigation required")
            /\ (calls # <<>> /\ calls[Len(calls)] = b) =>
                 /\ pump' = pump
                 /\ serial'[Len(serial')] = serial[Len(serial)]
  ]_vars

C5_Witness ==
  /\ calls = <<TRUE, FALSE, FALSE>>
  /\ pump = "LOW"
  /\ Len(serial) = 3
  /\ serial[2] = serial[3]

\* the operations of one loop() call, in the order of the source
CodeOrder ==
  << "analogRead(A0)", "analogRead(A1)", "analogRead(A2)", "shouldIrrigate",
     "SensorData", "Serial.print(log)", "digitalWrite", "Serial.println(status)",
     "delay" >>

(* C6 as amended: every loop() call performs, in this order: read soil     *)
(* moisture, read temperature, read gas, evaluate the policy, build the    *)
(* snapshot, log, write the pump, print the status line, wait.             *)
C6_CodeOrder ==
  /\ IsPrefix(steps, CodeOrder)
  /\ \A n \in DOMAIN hist : hist[n].steps = CodeOrder

\* the same operations, in the order of the specification
ClaimedOrder ==
  << "analogRead(A0)", "analogRead(A1)", "analogRead(A2)", "SensorData",
     "shouldIrrigate", "Serial.print(log)", "digitalWrite", "Serial.println(status)",
     "delay" >>

(* C6 as claimed: every loop() call performs, in this order: read the     *)
(* three sensors, build the snapshot, evaluate the policy, log, write the  *)
(* pump, print the status line, wait.                                      *)
C6_ClaimedOrder ==
  /\ IsPrefix(steps, ClaimedOrder)
  /\ \A n \in DOMAIN hist : hist[n].steps = ClaimedOrder

C6_Witness ==
  /\ Len(hist) = 2
  /\ hist[1].steps = CodeOrder
  /\ hist[2].steps = CodeOrder
  /\ steps = CodeOrder

(* C7: setup() runs once, before the first loop() call; it drives the pump *)
(* LOW and prints the banner once; the banner never appears again, and the *)
(* pump stays LOW until the first loop() call writes it.                   *)
C7_SetupOnce ==
  /\ setups <= 1
  /\ pc = "setup" <=> setups = 0
  /\ pc = "setup" => (iter = 0 /\ steps = <<>> /\ serial = <<>>)
  /\ pc # "setup" =>
       /\ Len(serial) >= 2
       /\ IsText(serial[1], "Edge Computing Irrigation Monitoring System")
       /\ IsText(serial[2], "-------------------------------------------")
       /\ CountText(serial, "Edge Computing Irrigation Monitoring System") = 1
       /\ CountText(serial, "-------------------------------------------") = 1
  /\ (pc # "setup" /\ hist = <<>> /\ ~WroteThisIter) => pump = "LOW"

\* the first readings call for irrigation and the pump is still LOW
C7_Witness ==
  /\ pc = "controlIrrigation"
  /\ iter = 1
  /\ sampled = <<250, 174, 450>>
  /\ frame.irrigationNeeded = TRUE
  /\ pump = "LOW"
  /\ setups = 1

\* a constant slope of 500 / 1023 degrees per ADC step
ConvertLinear ==
  RatSub[result[1].fx, result[1].fy]
    = RatMul[RatSub[args.x, args.y], Rat[500, 1023]]

(* C8 as amended: convert(code) = (code * (5.0 / 1023) - 0.5) * 100.0 is   *)
(* linear in code, convert(0) = -50, convert(1023) = 450 and               *)
(* convert(102.3) = 0.                                                     *)
C8_ConvertValues ==
  Len(result) = 1 =>
    /\ ConvertLinear
    /\ args.x = RatInt[0] => result[1].fx = RatInt[-50]
    /\ args.x = RatInt[1023] => result[1].fx = RatInt[450]
    /\ args.x = Rat[1023, 10] => result[1].fx = RatInt[0]

(* C8 as claimed: convert is linear in code, convert(0) = -50,             *)
(* convert(1023) = 450 and convert(102.3) = -50.                           *)
C8_ClaimedValues ==
  Len(result) = 1 =>
    /\ ConvertLinear
    /\ args.x = RatInt[0] => result[1].fx = RatInt[-50]
    /\ args.x = RatInt[1023] => result[1].fx = RatInt[450]
    /\ args.x = Rat[1023, 10] => result[1].fx = RatInt[-50]

C8_Witness ==
  /\ Len(result) = 1
  /\ args.x = Rat[1023, 10]
  /\ args.y = RatInt[1023]
  /\ result[1].fx = RatInt[0]
  /\ result[1].fy = RatInt[450]

(* C9: two executions whose n-th loop() calls sample the same three        *)
(* readings emit the same lines in that call and leave the pump in the     *)
(* same state after it, whatever happened before in either execution.      *)
C9_NoCarryOver ==
  \A n \in DOMAIN hist :
    (n \in DOMAIN archive /\ hist[n].sampled = archive[n].sampled) =>
      /\ hist[n].out = archive[n].out
      /\ hist[n].pump = archive[n].pump

\* same readings in the second calls, after different first calls that left
\* the pump in different states
C9_Witness ==
  /\ Len(hist) = 2
  /\ Len(archive) = 2
  /\ hist[2].sampled = archive[2].sampled
  /\ hist[1].sampled # archive[1].sampled
  /\ hist[1].pump # archive[1].pump
  /\ hist[1].out # archive[1].out

\* a completed loop() call: one log block, one status line, one pump write
IterComplete(h) ==
  /\ Count(h.steps, "Serial.print(log)") = 1
  /\ Count(h.steps, "Serial.println(status)") = 1
  /\ Count(h.steps, "digitalWrite") = 1
  /\ h.steps[Len(h.steps)] = "delay"
  /\ Len(h.out) = 4
  /\ CountText(h.out, "--- Sensor Data Log ---") = 1
  /\ Cardinality({i \in DOMAIN h.out : IsData(h.out[i])}) = 1
  /\ CountText(h.out, "IRRIGATION ACTIVATED")
       + CountText(h.out, "No irrigation required") = 1

(* C10: the loop never gets stuck and has no terminal state: setup()       *)
(* completes, each loop() call is followed by the next (up to MaxIter      *)
(* calls), and every call that starts completes with exactly one log       *)
(* block, one status line and one pump write before its wait.              *)
C10_LoopNeverStuck ==
  /\ <>(pc # "setup")
  /\ [](iter < MaxIter => ENABLED Next)
  /\ [](\A n \in DOMAIN hist : IterComplete(hist[n]))
  /\ \A n \in 1..MaxIter :
       /\ (pc # "setup" /\ iter = n - 1) ~> (iter = n)
       /\ (iter = n) ~> (Len(hist) = n /\ pc = "readSoilMoisture")

\* two completed calls with the same decision: the second still logged and
\* wrote the pump
C10_Witness ==
  /\ Len(hist) = 2
  /\ hist[1].pump = hist[2].pump
  /\ IterComplete(hist[1])
  /\ IterComplete(hist[2])
  /\ pc = "readSoilMoisture"

=============================================================================
